---- MODULE Spec2Model ----
(***************************************************************************)
(* Model of markdown-brain's MarkdownBrainServer (src/src/index.ts): the   *)
(* in-memory document Map, the startup scan, the chokidar watcher handlers *)
(* and the five tool calls.                                                *)
(*                                                                         *)
(* Conventions.  An optional JavaScript value is a sequence: << >> is      *)
(* undefined / null, <<v>> is the value v.  Text is a sequence of lexemes  *)
(* (markup signs, punctuation, words).  A number that may be NaN is a      *)
(* fraction [num, den] with den = 0 standing for NaN (0/0).  A JavaScript  *)
(* Map is the sequence of its values in insertion order.                   *)
(*                                                                         *)
(* An awaited fs call is one step: it reads the disk when it settles.  What *)
(* runs between two awaits is one step, so documents.set and the rebuild    *)
(* that follows it in the same turn are one step.  this.tfidf is written by *)
(* loadDocument and read by nothing, and is left out.                       *)
(***************************************************************************)
EXTENDS Integers, Sequences, FiniteSets, Bags, TLC

(* ------------------------------ bounds -------------------------------- *)

\* Number of filesystem mutations (create, modify, delete) the environment makes.
MaxWrites == 2

\* Modification times drawn for the files of a drawn corpus are 0..MaxTime.
MaxTime == 2

(* --------------------------- paths and text --------------------------- *)

docsPath == "docs"

\* The .md files that may exist under docsPath.
Paths == {"docs/a.md", "docs/b-c.md", "docs/sub/d.md"}

\* docsPath holds one subdirectory; the .md files lie in docsPath or in it.
subDir == "docs/sub"
RootPaths == {"docs/a.md", "docs/b-c.md"}
SubPaths == {"docs/sub/d.md"}

\* The files the environment creates and rewrites while the server runs, the
\* files it also deletes, and the files it only creates (at most once: they do
\* not exist at first).
SyncPaths == {"docs/a.md", "docs/b-c.md"}
DeletedPaths == {"docs/a.md"}
CreatedPaths == {"docs/sub/d.md"}

\* The .md files of the larger directory that find_similar is run against.
SimilarPaths == Paths \cup {"docs/e.md"}

\* path.relative(this.docsPath, filePath)
relative(from, filePath) ==
    CASE filePath = "docs/a.md"     -> "a.md"
      [] filePath = "docs/b-c.md"   -> "b-c.md"
      [] filePath = "docs/sub/d.md" -> "sub/d.md"
      [] filePath = "docs/e.md"     -> "e.md"
      [] OTHER -> filePath

\* path.basename(filePath, '.md').replace(/-/g, ' ')
basenameTitle(filePath) ==
    CASE filePath = "docs/a.md"     -> "a"
      [] filePath = "docs/b-c.md"   -> "b c"
      [] filePath = "docs/sub/d.md" -> "d"
      [] filePath = "docs/e.md"     -> "e"
      [] OTHER -> filePath

Markup == {"#", "**"}
Punctuation == {","}

\* String.prototype.toLowerCase on one lexeme
lowerLexeme(x) == IF x = "Alpha" THEN "alpha" ELSE IF x = "Notes" THEN "notes" ELSE x

toLowerCase(text) == [i \in 1..Len(text) |-> lowerLexeme(text[i])]

IsMarkup(x) == x \in Markup
IsWord(x) == x \notin Markup /\ x \notin Punctuation

\* marked.parse + strip of the HTML tags + trim: the markup signs go, the text stays
markdownToPlainText(markdown) == SelectSeq(markdown, LAMBDA x : ~IsMarkup(x))

\* natural.WordTokenizer.tokenize: split at non-word characters, empty pieces dropped
tokenize(text) == SelectSeq(text, IsWord)

\* Raw file contents (front matter + markdown body) the environment writes.
RawNotes == [frontmatter |-> [title |-> <<"Notes">>, tags |-> << <<"urgent", "Alpha">> >>],
             markdown |-> <<"#", "Alpha", "beta">>]
RawPlain == [frontmatter |-> [title |-> << >>, tags |-> << >>],
             markdown |-> <<"alpha", ",", "gamma", "alpha">>]
RawEmpty == [frontmatter |-> [title |-> << >>, tags |-> << >>],
             markdown |-> << >>]
Contents == {RawNotes, RawPlain, RawEmpty}

\* gray-matter: matter(content) -> { data, content }
matter(raw) == [data |-> raw.frontmatter, content |-> raw.markdown]

(* ------------------------------ the Map ------------------------------- *)

RECURSIVE SeqToSet(_)
SeqToSet(s) == IF s = << >> THEN {} ELSE {Head(s)} \cup SeqToSet(Tail(s))

MapKeys(docs) == {docs[i].id : i \in 1..Len(docs)}
MapHas(docs, id) == \E i \in 1..Len(docs) : docs[i].id = id
\* Map.get: << >> for undefined
MapGet(docs, id) == SelectSeq(docs, LAMBDA d : d.id = id)
\* Map.set keeps the position of an existing key and appends a new one
MapSet(docs, doc) ==
    IF MapHas(docs, doc.id)
    THEN [i \in 1..Len(docs) |-> IF docs[i].id = doc.id THEN doc ELSE docs[i]]
    ELSE Append(docs, doc)
MapDelete(docs, id) == SelectSeq(docs, LAMBDA d : d.id # id)
\* Array.from(this.documents.values())
MapValues(docs) == docs

(* --------------------------- loadDocument ----------------------------- *)

\* The record loadDocument builds from one readFile result and one stat result.
buildDocument(filePath, raw, mtime) ==
    LET fm        == matter(raw).data
        markdown  == matter(raw).content
        plainText == markdownToPlainText(markdown)
    IN [id           |-> relative(docsPath, filePath),
        path         |-> filePath,
        title        |-> IF fm.title # << >> THEN fm.title[1] ELSE basenameTitle(filePath),
        content      |-> plainText,
        frontmatter  |-> fm,
        lastModified |-> mtime,
        tokens       |-> tokenize(toLowerCase(plainText))]

(* ------------------------- rebuildSearchIndex ------------------------- *)

\* An index is built only when there is something to index.
rebuildSearchIndex_nullWhenEmpty(docs) ==
    IF docs = << >> THEN << >> ELSE << [docs |-> MapValues(docs)] >>

\* An index published before its last record is added.
rebuildSearchIndex_halfBuilt(docs) ==
    << [docs |-> SubSeq(MapValues(docs), 1, Len(docs) - 1)] >>

\* this.fuse: << >> is null, <<index>> an index over a copy of the Map's values
rebuildSearchIndex(docs) == << [docs |-> MapValues(docs)] >>

(* ------------------------------ replies ------------------------------- *)

\* { content: [{ type: 'text', text }] }: the text is a fixed message, or the
\* JSON.stringify of a list of objects (getDocument: of the one object).
TextReply(msg)  == [kind |-> "text",  message |-> msg,     items |-> << >>]
JsonReply(list) == [kind |-> "json",  message |-> << >>,   items |-> list]
\* a rejected promise of the request handler (throw new Error(msg))
ErrorReply(msg) == [kind |-> "error", message |-> <<msg>>, items |-> << >>]
NoReply         == [kind |-> "none",  message |-> << >>,   items |-> << >>]

NotReadyReply    == TextReply(<<"No documents loaded yet">>)
NotFoundReply(id) == TextReply(<<"Document not found: ", id>>)

\* Array.prototype.slice(0, n) for an integer n
slice0(s, n) ==
    IF n >= 0
    THEN SubSeq(s, 1, IF n < Len(s) THEN n ELSE Len(s))
    ELSE SubSeq(s, 1, IF Len(s) + n > 0 THEN Len(s) + n ELSE 0)

\* Array.prototype.sort, which is stable: cmp[i][j] is the comparator's result
\* for (s[i], s[j]); an element goes after the elements that compare smaller
\* and after the equal ones before it.
SortBy(s, cmp) ==
    LET rank(i) == 1 + Cardinality({j \in 1..Len(s) :
                        \/ cmp[j][i] < 0
                        \/ cmp[j][i] = 0 /\ j < i})
    IN [k \in 1..Len(s) |-> s[CHOOSE i \in 1..Len(s) : rank(i) = k]]

Sign(n) == IF n > 0 THEN 1 ELSE IF n < 0 THEN -1 ELSE 0

(* -------------------------- searchDocuments --------------------------- *)

\* doc.frontmatter.tags || []
tagsOrEmpty(doc) == IF doc.frontmatter.tags = << >> THEN << >> ELSE doc.frontmatter.tags[1]

\* Fuse with these options (useExtendedSearch, ignoreLocation, case-insensitive)
\* scores one text against a one-word query: 0 when the text is the query, the
\* floor 0.001 when the query occurs in a longer text, no match otherwise
\* (approximate matches of other words are not modelled).  The record's score
\* is the product over its matching texts of s ^ (weight * norm), with 0 taken as
\* Number.EPSILON.  The model keeps a score as [negLog |-> n], standing for the
\* number exp(-n / 10^7): n is the sum of weight (in tenths) * norm (in
\* thousandths) * -ln s (in thousandths).
NegLogWhole == 36044   \* -ln(Number.EPSILON) = 36.044
NegLogPart  == 6908    \* -ln(0.001) = 6.908

\* Fuse's field-length norm, 1 / sqrt(number of words), rounded to 3 decimals.
fieldNorm(words) ==
    CASE words <= 1 -> 1000
      [] words = 2  -> 707
      [] words = 3  -> 577
      [] OTHER      -> 500

\* The contribution of one text (a sequence of lexemes) of a key of weight
\* `weight` tenths: 0 when the query does not occur in it.
textNegLog(text, query, weight) ==
    LET words == SelectSeq(toLowerCase(text), IsWord)
    IN IF lowerLexeme(query) \notin SeqToSet(words) THEN 0
       ELSE weight * fieldNorm(Len(words))
              * (IF Len(text) = 1 THEN NegLogWhole ELSE NegLogPart)

\* Sum of the contributions of the items of an array-valued key.
RECURSIVE itemsNegLog(_, _, _)
itemsNegLog(items, query, weight) ==
    IF items = << >> THEN 0
    ELSE textNegLog(<<Head(items)>>, query, weight) + itemsNegLog(Tail(items), query, weight)

\* The keys of the index: title (0.3), content (0.5), frontmatter.tags (0.2).
\* A modelled title matches only as a whole.
fuseNegLog(doc, query) ==
    (IF lowerLexeme(doc.title) = lowerLexeme(query) THEN 3 * fieldNorm(1) * NegLogWhole ELSE 0)
    + textNegLog(doc.content, query, 5)
    + itemsNegLog(tagsOrEmpty(doc), query, 2)

\* Whether Fuse matches `query` against one record: in at least one key.
fuseMatches(doc, query) == fuseNegLog(doc, query) > 0

\* Fuse's sortFn: by score ascending, equal scores by index.
byFuseScore(a, b) == Sign(b.score.negLog - a.score.negLog)

sortByFuseScore(results) ==
    SortBy(results, [i \in 1..Len(results) |-> [j \in 1..Len(results) |->
                         byFuseScore(results[i], results[j])]])

\* Fuse.search(query, { limit }): the matching records of the index with their
\* scores (includeScore), sorted; Fuse cuts the list only when limit > -1.
fuseSearch(index, query, limit) ==
    LET hits    == SelectSeq(index.docs, LAMBDA d : fuseMatches(d, query))
        results == sortByFuseScore([i \in 1..Len(hits) |->
                       [item |-> hits[i], score |-> [negLog |-> fuseNegLog(hits[i], query)]]])
    IN IF limit > -1 THEN slice0(results, limit) ELSE results

\* item.content.substring(0, n) + '...' (every modelled text is shorter than n)
excerpt(content, n) == Append(content, "...")

searchDocuments(docs, fuse, query, limit) ==
    IF fuse = << >>
    THEN NotReadyReply
    ELSE LET results == fuseSearch(fuse[1], query, limit)
         IN JsonReply([i \in 1..Len(results) |->
                [id      |-> results[i].item.id,
                 title   |-> results[i].item.title,
                 score   |-> results[i].score,
                 excerpt |-> excerpt(results[i].item.content, 200),
                 tags    |-> tagsOrEmpty(results[i].item)]])

(* ---------------------- getDocument, listDocuments -------------------- *)

\* getDocument with `throw new Error(...)` in place of the not-found result.
getDocument_throwsWhenMissing(docs, id) ==
    LET doc == MapGet(docs, id)
    IN IF doc = << >>
       THEN ErrorReply("Document not found")
       ELSE JsonReply(<< [id           |-> doc[1].id,
                          title        |-> doc[1].title,
                          frontmatter  |-> doc[1].frontmatter,
                          content      |-> doc[1].content,
                          lastModified |-> doc[1].lastModified] >>)

getDocument(docs, id) ==
    LET doc == MapGet(docs, id)
    IN IF doc = << >>
       THEN NotFoundReply(id)
       ELSE JsonReply(<< [id           |-> doc[1].id,
                          title        |-> doc[1].title,
                          frontmatter  |-> doc[1].frontmatter,
                          content      |-> doc[1].content,
                          lastModified |-> doc[1].lastModified] >>)

\* tag is << >> (undefined) or <<string>>; the empty string is falsy
listDocuments(docs, tag) ==
    LET all  == MapValues(docs)
        kept == IF tag # << >> /\ tag[1] # ""
                THEN SelectSeq(all, LAMBDA d : d.frontmatter.tags # << >>
                                    /\ tag[1] \in SeqToSet(d.frontmatter.tags[1]))
                ELSE all
    IN JsonReply([i \in 1..Len(kept) |->
            [id           |-> kept[i].id,
             title        |-> kept[i].title,
             tags         |-> tagsOrEmpty(kept[i]),
             lastModified |-> kept[i].lastModified]])

(* ------------------ calculateSimilarity, find_similar ----------------- *)

\* intersection.size / union.size as a fraction; den = 0 is the NaN of 0 / 0.
\* (loadDocument always stores a token array, so !doc.tokens is never true.)
calculateSimilarity_bySet1(doc1, doc2) ==
    LET set1 == SeqToSet(doc1.tokens)
        set2 == SeqToSet(doc2.tokens)
    IN [num |-> Cardinality({x \in set1 : x \in set2}), den |-> Cardinality(set1)]

calculateSimilarity(doc1, doc2) ==
    LET set1         == SeqToSet(doc1.tokens)
        set2         == SeqToSet(doc2.tokens)
        intersection == {x \in set1 : x \in set2}
        union        == set1 \cup set2
    IN [num |-> Cardinality(intersection), den |-> Cardinality(union)]

IsNaN(score) == score.den = 0

\* The comparator (a, b) => a.score - b.score.
byScoreDescending_ascending(a, b) ==
    IF a.score.den = 0 \/ b.score.den = 0 THEN 0
    ELSE Sign(a.score.num * b.score.den - b.score.num * a.score.den)

\* (a, b) => b.score - a.score; a NaN difference counts as 0 in Array.prototype.sort
byScoreDescending(a, b) ==
    IF IsNaN(a.score) \/ IsNaN(b.score) THEN 0
    ELSE Sign(b.score.num * a.score.den - a.score.num * b.score.den)

\* scores.sort((a, b) => b.score - a.score)
sortByScore(scores) ==
    SortBy(scores, [i \in 1..Len(scores) |-> [j \in 1..Len(scores) |->
                        byScoreDescending(scores[i], scores[j])]])

\* The loop over the Map without its `if (docId === id) continue`.
findSimilarDocuments_includesTarget(docs, id, limit) ==
    LET targetDoc == MapGet(docs, id)
    IN IF targetDoc = << >>
       THEN NotFoundReply(id)
       ELSE LET scores == [i \in 1..Len(docs) |->
                             [id    |-> docs[i].id,
                              score |-> calculateSimilarity(targetDoc[1], docs[i]),
                              title |-> docs[i].title]]
            IN JsonReply(slice0(sortByScore(scores), limit))

findSimilarDocuments(docs, id, limit) ==
    LET targetDoc == MapGet(docs, id)
    IN IF targetDoc = << >>
       THEN NotFoundReply(id)
       ELSE LET others == SelectSeq(docs, LAMBDA d : d.id # id)
                scores == [i \in 1..Len(others) |->
                             [id    |-> others[i].id,
                              score |-> calculateSimilarity(targetDoc[1], others[i]),
                              title |-> others[i].title]]
            IN JsonReply(slice0(sortByScore(scores), limit))

(* ----------------------------- searchByDate --------------------------- *)

\* new Date(s).getTime(): << >> is NaN (Invalid Date); times are in the unit of
\* the modelled modification times (t is 2024-0t-01T00:00:00Z).
parseDate(s) ==
    CASE s = "2024-01-01"               -> <<1>>
      [] s = "2024-01-01T00:00:00.000Z" -> <<1>>
      [] s = "2024-02-01"               -> <<2>>
      [] s = "2024-03-01"               -> <<3>>
      [] OTHER                          -> << >>

\* (a, b) => b.lastModified.getTime() - a.lastModified.getTime()
byLastModifiedDescending(a, b) == Sign(b.lastModified - a.lastModified)

\* docs.sort((a, b) => b.lastModified.getTime() - a.lastModified.getTime())
sortByLastModified(docs) ==
    SortBy(docs, [i \in 1..Len(docs) |-> [j \in 1..Len(docs) |->
                      byLastModifiedDescending(docs[i], docs[j])]])

searchByDate_inclusive(docs, after, before) ==
    LET all == MapValues(docs)
        d1  == IF after # << >> /\ after[1] # ""
               THEN SelectSeq(all, LAMBDA d : parseDate(after[1]) # << >>
                                  /\ d.lastModified >= parseDate(after[1])[1])
               ELSE all
        d2  == IF before # << >> /\ before[1] # ""
               THEN SelectSeq(d1, LAMBDA d : parseDate(before[1]) # << >>
                                  /\ d.lastModified <= parseDate(before[1])[1])
               ELSE d1
        sorted == sortByLastModified(d2)
    IN JsonReply([i \in 1..Len(sorted) |->
            [id           |-> sorted[i].id,
             title        |-> sorted[i].title,
             lastModified |-> sorted[i].lastModified,
             excerpt      |-> excerpt(sorted[i].content, 150)]])

\* after, before are << >> (undefined) or <<string>>; the empty string is falsy
searchByDate(docs, after, before) ==
    LET all == MapValues(docs)
        d1  == IF after # << >> /\ after[1] # ""
               THEN SelectSeq(all, LAMBDA d : parseDate(after[1]) # << >>
                                  /\ d.lastModified > parseDate(after[1])[1])
               ELSE all
        d2  == IF before # << >> /\ before[1] # ""
               THEN SelectSeq(d1, LAMBDA d : parseDate(before[1]) # << >>
                                  /\ d.lastModified < parseDate(before[1])[1])
               ELSE d1
        sorted == sortByLastModified(d2)
    IN JsonReply([i \in 1..Len(sorted) |->
            [id           |-> sorted[i].id,
             title        |-> sorted[i].title,
             lastModified |-> sorted[i].lastModified,
             excerpt      |-> excerpt(sorted[i].content, 150)]])

(* ----------------------- CallToolRequest handler ---------------------- *)

\* args.limit as number || dflt
limitOr(limit, dflt) == IF limit = << >> \/ limit[1] = 0 THEN dflt ELSE limit[1]

NoArg == << >>
Args(query, limit, id, tag, after, before) ==
    << [query |-> query, limit |-> limit, id |-> id, tag |-> tag,
        after |-> after, before |-> before] >>

\* The reply of the request handler to [name, args]; args is << >> when the
\* request carries no arguments object.
callTool(docs, fuse, req) ==
    IF req.args = << >>
    THEN ErrorReply("No arguments provided")
    ELSE LET args == req.args[1]
         IN CASE req.name = "search_documents" ->
                    searchDocuments(docs, fuse, args.query[1], limitOr(args.limit, 5))
              [] req.name = "get_document" ->
                    getDocument(docs, args.id[1])
              [] req.name = "list_documents" ->
                    listDocuments(docs, args.tag)
              [] req.name = "find_similar" ->
                    findSimilarDocuments(docs, args.id[1], limitOr(args.limit, 3))
              [] req.name = "search_by_date" ->
                    searchByDate(docs, args.after, args.before)
              [] OTHER -> ErrorReply("Unknown tool")

(* ------------------------------- state -------------------------------- *)

VARIABLES
    disk,        \* the files under docsPath: path -> << >> or <<[raw, mtime]>>
    writes,      \* filesystem mutations made so far
    phase,       \* "init": initializeDocuments awaits fs.access; "readdir": getMarkdownFiles
                 \* awaits readdir(docsPath); "readdirSub": its recursive call awaits
                 \* readdir(subDir); "scan": the loop of loadDocuments; "watching": the
                 \* chokidar watcher is subscribed
    scanFiles,   \* in "readdirSub": the entries of docsPath, subDir among them; then
                 \* loadDocuments: the files still to load, the current one first
    scanLoad,    \* loadDocument of the current file: << >> awaits readFile, <<raw>> awaits stat
    scanCall,    \* the fs call startup awaits: << >> not performed yet, <<r>> performed
                 \* and not yet settled, r = << >> (it failed) or <<value>>
    pending,     \* watcher events not yet delivered to a handler, oldest first
    inflight,    \* bag of suspended add/change handlers [path, raw, call]: raw = << >>
                 \* awaits readFile, raw = <<r>> awaits stat; call as scanCall
    documents,   \* this.documents
    fuse,        \* this.fuse
    lastOp,      \* the step just taken: [op, path, ok]
    lastReq,     \* << >>, or <<request>> when the step just taken was a tool call
    reply,       \* the reply of that tool call
    lastEvent,   \* history: path -> kind of the last event delivered for it, or "none"
    loadFailed,  \* history: path -> a readFile/stat failed since that event
    rebuilt      \* history: rebuildSearchIndex has run

vars == <<disk, writes, phase, scanFiles, scanLoad, scanCall, pending, inflight, documents, fuse,
          lastOp, lastReq, reply, lastEvent, loadFailed, rebuilt>>

fsVars      == <<disk, writes>>
scanVars    == <<scanFiles, scanLoad, scanCall>>
historyVars == <<lastEvent, loadFailed>>

File(raw, mtime) == << [raw |-> raw, mtime |-> mtime] >>

Exists(p)   == disk[p] # << >>

Op(op, path, ok) == [op |-> op, path |-> path, ok |-> ok]

\* An awaited fs call is performed by the thread pool at some instant after it
\* was issued; its promise settles, and the awaiting code resumes, in a later
\* turn.  The call sees the disk as it is when it is performed.
NotPerformed == << >>
Failed       == << << >> >>
Result(v)    == << <<v>> >>
Performed(call) == call # << >>
Succeeded(call) == call # << >> /\ call[1] # << >>
ValueOf(call)   == call[1][1]

\* No tool call is being answered: the request handler has no suspension point,
\* so its reply is sent before any other callback runs.
Idle == lastReq = << >>

NoCall == /\ Idle
          /\ lastReq' = << >>
          /\ reply' = NoReply

\* No add/change handler is suspended and the startup scan is over.
Quiescent == phase = "watching" /\ inflight = EmptyBag

InFlightFor(p) == \E h \in BagToSet(inflight) : h.path = p

\* Injective sequences over the paths in S: the orders a directory listing may have.
Orders(S) == {s \in [1..Cardinality(S) -> S] : \A i, j \in 1..Cardinality(S) :
                 s[i] = s[j] => i = j}

(* ------------------------------ startup ------------------------------- *)

\* constructor: empty Map, no index; initializeDocuments has been called and
\* awaits fs.access(docsPath).  The directory exists, with its subdirectory,
\* and holds some files.
Init ==
    /\ disk \in {d \in [Paths -> {<< >>, File(RawNotes, 0)}] :
                   \A p \in CreatedPaths : d[p] = << >>}
    /\ writes = 0
    /\ phase = "init"
    /\ scanFiles = << >>
    /\ scanLoad = << >>
    /\ scanCall = NotPerformed
    /\ pending = << >>
    /\ inflight = EmptyBag
    /\ documents = << >>
    /\ fuse = << >>
    /\ lastOp = Op("constructor", "", TRUE)
    /\ lastReq = << >>
    /\ reply = NoReply
    /\ lastEvent = [p \in Paths |-> "none"]
    /\ loadFailed = [p \in Paths |-> FALSE]
    /\ rebuilt = FALSE

\* loadDocuments after its loop: rebuildSearchIndex(); then initializeDocuments
\* calls watchDocuments().
FinishScan(docs) ==
    /\ fuse' = rebuildSearchIndex(docs)
    /\ rebuilt' = TRUE
    /\ phase' = "watching"

\* The loop of loadDocuments with a rebuildSearchIndex() after every file.
ScanAdvance_rebuildsEachFile(docs) ==
    /\ scanFiles' = Tail(scanFiles)
    /\ scanLoad' = << >>
    /\ scanCall' = NotPerformed
    /\ fuse' = rebuildSearchIndex(docs)
    /\ rebuilt' = TRUE
    /\ phase' = IF Tail(scanFiles) = << >> THEN "watching" ELSE "scan"

\* The loop of loadDocuments moves past the current file.
ScanAdvance(docs) ==
    /\ scanFiles' = Tail(scanFiles)
    /\ scanLoad' = << >>
    /\ scanCall' = NotPerformed
    /\ IF Tail(scanFiles) = << >>
       THEN FinishScan(docs)
       ELSE UNCHANGED <<fuse, rebuilt, phase>>

\* fs.access(docsPath) resolves (the directory exists: no mkdir);
\* loadDocuments calls getMarkdownFiles(docsPath), which awaits fs.readdir.
Access ==
    /\ phase = "init"
    /\ phase' = "readdir"
    /\ lastOp' = Op("access", docsPath, TRUE)
    /\ NoCall
    /\ UNCHANGED <<fsVars, scanVars, pending, inflight, documents, fuse, historyVars, rebuilt>>

\* entries with the files of the subdirectory in the place of its entry:
\* files.push(...await this.getMarkdownFiles(fullPath))
Splice(entries, sub) ==
    LET k == CHOOSE i \in 1..Len(entries) : entries[i] = subDir
    IN SubSeq(entries, 1, k - 1) \o sub \o SubSeq(entries, k + 1, Len(entries))

\* The readdir that getMarkdownFiles awaits is performed: it lists the entries
\* of its directory as it is now, in directory order.
FsReaddir ==
    /\ phase \in {"readdir", "readdirSub"}
    /\ scanCall = NotPerformed
    /\ \E entries \in Orders(IF phase = "readdir"
                              THEN {p \in RootPaths : Exists(p)} \cup {subDir}
                              ELSE {p \in SubPaths : Exists(p)}) :
          scanCall' = Result(entries)
    /\ lastOp' = Op("fs:readdir", IF phase = "readdir" THEN docsPath ELSE subDir, TRUE)
    /\ NoCall
    /\ UNCHANGED <<fsVars, phase, scanFiles, scanLoad, pending, inflight, documents, fuse,
                   historyVars, rebuilt>>

\* readdir(docsPath) resolves with the entries it listed; the loop over them
\* reaches the subdirectory and the recursive call awaits readdir(subDir).
GetMarkdownFiles ==
    /\ phase = "readdir"
    /\ Succeeded(scanCall)
    /\ scanFiles' = ValueOf(scanCall)
    /\ scanCall' = NotPerformed
    /\ phase' = "readdirSub"
    /\ lastOp' = Op("readdir", docsPath, TRUE)
    /\ NoCall
    /\ UNCHANGED <<fsVars, scanLoad, pending, inflight, documents, fuse, historyVars, rebuilt>>

\* readdir(subDir) resolves with the entries it listed; getMarkdownFiles
\* returns the whole list, loadDocuments clears the Map and starts its loop.
GetMarkdownFilesSub ==
    /\ phase = "readdirSub"
    /\ Succeeded(scanCall)
    /\ LET files == Splice(scanFiles, ValueOf(scanCall))
       IN /\ scanFiles' = files
          /\ scanLoad' = << >>
          /\ scanCall' = NotPerformed
          /\ documents' = << >>
          /\ IF files = << >>
             THEN FinishScan(<< >>)
             ELSE /\ phase' = "scan"
                  /\ UNCHANGED <<fuse, rebuilt>>
    /\ lastOp' = Op("getMarkdownFiles", "", TRUE)
    /\ NoCall
    /\ UNCHANGED <<fsVars, pending, inflight, historyVars>>

\* A readdir of getMarkdownFiles fails and its promise rejects: loadDocuments
\* logs it and returns without a rebuild; the watcher is subscribed all the same.
GetMarkdownFilesFails ==
    /\ phase \in {"readdir", "readdirSub"}
    /\ scanCall = NotPerformed
    /\ phase' = "watching"
    /\ scanFiles' = << >>
    /\ lastOp' = Op("getMarkdownFiles", "", FALSE)
    /\ NoCall
    /\ UNCHANGED <<fsVars, scanLoad, scanCall, pending, inflight, documents, fuse,
                   historyVars, rebuilt>>

\* The readFile that the scan's loadDocument awaits is performed.
FsScanReadFile ==
    /\ phase = "scan"
    /\ scanLoad = << >>
    /\ scanCall = NotPerformed
    /\ LET p == Head(scanFiles)
       IN /\ scanCall' = (IF Exists(p) THEN Result(disk[p][1].raw) ELSE Failed)
          /\ lastOp' = Op("fs:readFile", p, Exists(p))
    /\ NoCall
    /\ UNCHANGED <<fsVars, phase, scanFiles, scanLoad, pending, inflight, documents, fuse,
                   historyVars, rebuilt>>

\* loadDocument of the scan: readFile settles.
ScanReadFile ==
    /\ phase = "scan"
    /\ scanLoad = << >>
    /\ Performed(scanCall)
    /\ LET p == Head(scanFiles)
       IN IF Succeeded(scanCall)
          THEN /\ scanLoad' = << ValueOf(scanCall) >>
               /\ scanCall' = NotPerformed
               /\ lastOp' = Op("scan:readFile", p, TRUE)
               /\ UNCHANGED <<scanFiles, fuse, rebuilt, phase>>
          ELSE /\ ScanAdvance(documents)
               /\ lastOp' = Op("scan:readFile", p, FALSE)
    /\ NoCall
    /\ UNCHANGED <<fsVars, pending, inflight, documents, historyVars>>

\* The stat that the scan's loadDocument awaits is performed.
FsScanStat ==
    /\ phase = "scan"
    /\ scanLoad # << >>
    /\ scanCall = NotPerformed
    /\ LET p == Head(scanFiles)
       IN /\ scanCall' = (IF Exists(p) THEN Result(disk[p][1].mtime) ELSE Failed)
          /\ lastOp' = Op("fs:stat", p, Exists(p))
    /\ NoCall
    /\ UNCHANGED <<fsVars, phase, scanFiles, scanLoad, pending, inflight, documents, fuse,
                   historyVars, rebuilt>>

\* loadDocument of the scan: stat settles; on success documents.set(id, doc).
ScanStat ==
    /\ phase = "scan"
    /\ scanLoad # << >>
    /\ Performed(scanCall)
    /\ LET p == Head(scanFiles)
       IN IF Succeeded(scanCall)
          THEN /\ documents' = MapSet(documents, buildDocument(p, scanLoad[1], ValueOf(scanCall)))
               /\ ScanAdvance(documents')
               /\ lastOp' = Op("scan:stat", p, TRUE)
          ELSE /\ documents' = documents
               /\ ScanAdvance(documents)
               /\ lastOp' = Op("scan:stat", p, FALSE)
    /\ NoCall
    /\ UNCHANGED <<fsVars, pending, inflight, historyVars>>

(* ---------------------------- environment ----------------------------- *)

\* chokidar queues an event for a change it sees once it is subscribed
\* (ignoreInitial: nothing is queued for what happened before).
Notify(kind, p) ==
    IF phase = "watching"
    THEN pending' = Append(pending, [kind |-> kind, path |-> p])
    ELSE pending' = pending

\* The contents the environment writes while the server runs: either text to
\* a file it also deletes, one text to the others.
Written == {RawNotes, RawPlain}
WrittenTo(p) == IF p \in DeletedPaths THEN Written ELSE {RawPlain}

\* A file is created or rewritten; its modification time is the time of the write.
WriteFile ==
    /\ writes < MaxWrites
    /\ \E p \in SyncPaths \cup CreatedPaths, w \in Written :
          /\ w \in WrittenTo(p)
          /\ p \in CreatedPaths => ~Exists(p)
          /\ disk' = [disk EXCEPT ![p] = File(w, writes + 1)]
          /\ Notify(IF Exists(p) THEN "change" ELSE "add", p)
          /\ lastOp' = Op("fs:write", p, TRUE)
    /\ writes' = writes + 1
    /\ NoCall
    /\ UNCHANGED <<phase, scanVars, inflight, documents, fuse, historyVars, rebuilt>>

DeleteFile ==
    /\ writes < MaxWrites
    /\ \E p \in DeletedPaths :
          /\ Exists(p)
          /\ disk' = [disk EXCEPT ![p] = << >>]
          /\ Notify("unlink", p)
          /\ lastOp' = Op("fs:delete", p, TRUE)
    /\ writes' = writes + 1
    /\ NoCall
    /\ UNCHANGED <<phase, scanVars, inflight, documents, fuse, historyVars, rebuilt>>

(* ------------------------------ watcher ------------------------------- *)

\* A suspended add/change handler.
Handler(p, raw, call) == [path |-> p, raw |-> raw, call |-> call]

\* The part of an 'add' / 'change' handler up to its first suspension:
\* loadDocument(path) has called fs.readFile.
StartHandler(kind, p) ==
    /\ inflight' = inflight (+) SetToBag({Handler(p, << >>, NotPerformed)})
    /\ lastEvent' = [lastEvent EXCEPT ![p] = kind]
    /\ loadFailed' = [loadFailed EXCEPT ![p] = FALSE]
    /\ lastOp' = Op(kind, p, TRUE)
    /\ pending' = Tail(pending)
    /\ NoCall
    /\ UNCHANGED <<fsVars, phase, scanVars, documents, fuse, rebuilt>>

\* .on('add', async (path) => { await this.loadDocument(path); this.rebuildSearchIndex(); })
OnAdd ==
    /\ phase = "watching"
    /\ pending # << >>
    /\ Head(pending).kind = "add"
    /\ StartHandler("add", Head(pending).path)

\* .on('change', ...): the same body
OnChange ==
    /\ phase = "watching"
    /\ pending # << >>
    /\ Head(pending).kind = "change"
    /\ StartHandler("change", Head(pending).path)

\* The 'unlink' handler with this.documents.clear() in place of delete(id).
OnUnlink_clearsStore ==
    /\ phase = "watching"
    /\ pending # << >>
    /\ Head(pending).kind = "unlink"
    /\ LET p == Head(pending).path
       IN /\ documents' = << >>
          /\ lastEvent' = [lastEvent EXCEPT ![p] = "unlink"]
          /\ loadFailed' = [loadFailed EXCEPT ![p] = FALSE]
          /\ lastOp' = Op("unlink", p, TRUE)
    /\ fuse' = rebuildSearchIndex(documents')
    /\ rebuilt' = TRUE
    /\ pending' = Tail(pending)
    /\ NoCall
    /\ UNCHANGED <<fsVars, phase, scanVars, inflight>>

\* .on('unlink', ...): synchronous delete and rebuild.
OnUnlink_noRebuild ==
    /\ phase = "watching"
    /\ pending # << >>
    /\ Head(pending).kind = "unlink"
    /\ LET p == Head(pending).path
       IN /\ documents' = MapDelete(documents, relative(docsPath, p))
          /\ lastEvent' = [lastEvent EXCEPT ![p] = "unlink"]
          /\ loadFailed' = [loadFailed EXCEPT ![p] = FALSE]
          /\ lastOp' = Op("unlink", p, TRUE)
    /\ pending' = Tail(pending)
    /\ NoCall
    /\ UNCHANGED <<fsVars, phase, scanVars, inflight, fuse, rebuilt>>

OnUnlink ==
    /\ phase = "watching"
    /\ pending # << >>
    /\ Head(pending).kind = "unlink"
    /\ LET p == Head(pending).path
       IN /\ documents' = MapDelete(documents, relative(docsPath, p))
          /\ lastEvent' = [lastEvent EXCEPT ![p] = "unlink"]
          /\ loadFailed' = [loadFailed EXCEPT ![p] = FALSE]
          /\ lastOp' = Op("unlink", p, TRUE)
    /\ fuse' = rebuildSearchIndex(documents')
    /\ rebuilt' = TRUE
    /\ pending' = Tail(pending)
    /\ NoCall
    /\ UNCHANGED <<fsVars, phase, scanVars, inflight>>

\* The readFile a handler awaits is performed.
FsHandlerReadFile ==
    /\ \E h \in BagToSet(inflight) :
          /\ h.raw = << >>
          /\ h.call = NotPerformed
          /\ inflight' = (inflight (-) SetToBag({h}))
                (+) SetToBag({Handler(h.path, << >>,
                        IF Exists(h.path) THEN Result(disk[h.path][1].raw) ELSE Failed)})
          /\ lastOp' = Op("fs:readFile", h.path, Exists(h.path))
    /\ NoCall
    /\ UNCHANGED <<fsVars, phase, scanVars, pending, documents, fuse, historyVars, rebuilt>>

\* A handler's readFile settles.  On an error loadDocument logs it and returns,
\* and the handler goes on to rebuildSearchIndex().
HandlerReadFile ==
    /\ \E h \in BagToSet(inflight) :
          /\ h.raw = << >>
          /\ Performed(h.call)
          /\ IF Succeeded(h.call)
             THEN /\ inflight' = (inflight (-) SetToBag({h}))
                        (+) SetToBag({Handler(h.path, << ValueOf(h.call) >>, NotPerformed)})
                  /\ lastOp' = Op("handler:readFile", h.path, TRUE)
                  /\ UNCHANGED <<fuse, rebuilt, loadFailed>>
             ELSE /\ inflight' = inflight (-) SetToBag({h})
                  /\ fuse' = rebuildSearchIndex(documents)
                  /\ rebuilt' = TRUE
                  /\ loadFailed' = [loadFailed EXCEPT ![h.path] = TRUE]
                  /\ lastOp' = Op("handler:readFile", h.path, FALSE)
    /\ NoCall
    /\ UNCHANGED <<fsVars, phase, scanVars, pending, documents, lastEvent>>

\* The stat a handler awaits is performed.
FsHandlerStat ==
    /\ \E h \in BagToSet(inflight) :
          /\ h.raw # << >>
          /\ h.call = NotPerformed
          /\ inflight' = (inflight (-) SetToBag({h}))
                (+) SetToBag({Handler(h.path, h.raw,
                        IF Exists(h.path) THEN Result(disk[h.path][1].mtime) ELSE Failed)})
          /\ lastOp' = Op("fs:stat", h.path, Exists(h.path))
    /\ NoCall
    /\ UNCHANGED <<fsVars, phase, scanVars, pending, documents, fuse, historyVars, rebuilt>>

\* HandlerStat whose turn ends after documents.set: the handler's
\* rebuildSearchIndex() has not run when the next callback is served.
HandlerStat_rebuildNotYetRun ==
    /\ \E h \in BagToSet(inflight) :
          /\ h.raw # << >>
          /\ Performed(h.call)
          /\ inflight' = inflight (-) SetToBag({h})
          /\ IF Succeeded(h.call)
             THEN /\ documents' = MapSet(documents,
                                         buildDocument(h.path, h.raw[1], ValueOf(h.call)))
                  /\ loadFailed' = loadFailed
                  /\ lastOp' = Op("handler:stat", h.path, TRUE)
             ELSE /\ documents' = documents
                  /\ loadFailed' = [loadFailed EXCEPT ![h.path] = TRUE]
                  /\ lastOp' = Op("handler:stat", h.path, FALSE)
    /\ NoCall
    /\ UNCHANGED <<fsVars, phase, scanVars, pending, lastEvent, fuse, rebuilt>>

\* HandlerStat with the tokens computed from a second read of the file, made
\* when stat settles, instead of from the text read before.
HandlerStat_tokensFromSecondRead ==
    /\ \E h \in BagToSet(inflight) :
          /\ h.raw # << >>
          /\ Performed(h.call)
          /\ inflight' = inflight (-) SetToBag({h})
          /\ IF Succeeded(h.call)
             THEN /\ documents' = MapSet(documents,
                        [buildDocument(h.path, h.raw[1], ValueOf(h.call))
                            EXCEPT !.tokens = buildDocument(h.path,
                                IF Exists(h.path) THEN disk[h.path][1].raw ELSE RawEmpty, 0).tokens])
                  /\ loadFailed' = loadFailed
                  /\ lastOp' = Op("handler:stat", h.path, TRUE)
             ELSE /\ documents' = documents
                  /\ loadFailed' = [loadFailed EXCEPT ![h.path] = TRUE]
                  /\ lastOp' = Op("handler:stat", h.path, FALSE)
    /\ fuse' = rebuildSearchIndex(documents')
    /\ rebuilt' = TRUE
    /\ NoCall
    /\ UNCHANGED <<fsVars, phase, scanVars, pending, lastEvent>>

\* A handler's stat settles: documents.set(id, doc) with the content its
\* readFile returned and the modification time its stat returned, then
\* rebuildSearchIndex() in the same turn.
HandlerStat ==
    /\ \E h \in BagToSet(inflight) :
          /\ h.raw # << >>
          /\ Performed(h.call)
          /\ inflight' = inflight (-) SetToBag({h})
          /\ IF Succeeded(h.call)
             THEN /\ documents' = MapSet(documents,
                                         buildDocument(h.path, h.raw[1], ValueOf(h.call)))
                  /\ loadFailed' = loadFailed
                  /\ lastOp' = Op("handler:stat", h.path, TRUE)
             ELSE /\ documents' = documents
                  /\ loadFailed' = [loadFailed EXCEPT ![h.path] = TRUE]
                  /\ lastOp' = Op("handler:stat", h.path, FALSE)
    /\ fuse' = rebuildSearchIndex(documents')
    /\ rebuilt' = TRUE
    /\ NoCall
    /\ UNCHANGED <<fsVars, phase, scanVars, pending, lastEvent>>

(* ----------------------------- tool calls ----------------------------- *)

Request(name, args) == [name |-> name, args |-> args]

Tools == {"search_documents", "get_document", "list_documents", "find_similar",
          "search_by_date"}

\* The largest limit a request carries.
MaxLimit == 2

Limits  == {<< >>} \cup {<<n>> : n \in -1..MaxLimit}
Ids     == {relative(docsPath, p) : p \in Paths} \cup {"missing.md"}
Queries == {"alpha", "urgent"}
TagArgs == {<< >>, <<"">>, <<"urgent">>, <<"beta">>}
Dates   == {<< >>, <<"">>, <<"2024-01-01">>, <<"2024-01-01T00:00:00.000Z">>,
            <<"2024-02-01">>, <<"not-a-date">>}

Requests ==
    {Request(t, NoArg) : t \in Tools}
    \cup {Request("search_documents", Args(<<q>>, l, << >>, << >>, << >>, << >>)) :
             q \in Queries, l \in Limits}
    \cup {Request("get_document", Args(<< >>, << >>, <<i>>, << >>, << >>, << >>)) : i \in Ids}
    \cup {Request("list_documents", Args(<< >>, << >>, << >>, t, << >>, << >>)) : t \in TagArgs}
    \cup {Request("find_similar", Args(<< >>, l, <<i>>, << >>, << >>, << >>)) :
             i \in Ids, l \in Limits}
    \cup {Request("search_by_date", Args(<< >>, << >>, << >>, << >>, a, b)) :
             a \in Dates, b \in Dates}

\* The requests made while the synchronizer runs: one of each tool.
SyncRequests ==
    { Request("search_documents", Args(<<"alpha">>, << >>, << >>, << >>, << >>, << >>)),
      Request("get_document", Args(<< >>, << >>, <<"a.md">>, << >>, << >>, << >>)),
      Request("list_documents", Args(<< >>, << >>, << >>, << >>, << >>, << >>)),
      Request("find_similar", Args(<< >>, << >>, <<"a.md">>, << >>, << >>, << >>)),
      Request("search_by_date", Args(<< >>, << >>, << >>, << >>, <<"2024-01-01">>, << >>)) }

\* A find_similar that drops the target from the Map instead of skipping it.
CallToolRequest_deletesTarget(R) ==
    /\ Idle
    /\ \E req \in R :
          /\ lastReq' = <<req>>
          /\ reply' = callTool(documents, fuse, req)
          /\ lastOp' = Op(req.name, "", TRUE)
          /\ documents' = IF req.name = "find_similar" /\ req.args # << >>
                          THEN MapDelete(documents, req.args[1].id[1])
                          ELSE documents
    /\ UNCHANGED <<fsVars, phase, scanVars, pending, inflight, fuse, historyVars,
                   rebuilt>>

\* setRequestHandler(CallToolRequestSchema, ...): one request of R is served.
CallToolRequest(R) ==
    /\ Idle
    /\ \E req \in R :
          /\ lastReq' = <<req>>
          /\ reply' = callTool(documents, fuse, req)
          /\ lastOp' = Op(req.name, "", TRUE)
    /\ UNCHANGED <<fsVars, phase, scanVars, pending, inflight, documents, fuse, historyVars,
                   rebuilt>>

\* The reply is handed to the transport and the server is idle again.
SendReply ==
    /\ ~Idle
    /\ lastReq' = << >>
    /\ reply' = NoReply
    /\ lastOp' = Op("reply", "", TRUE)
    /\ UNCHANGED <<fsVars, phase, scanVars, pending, inflight, documents, fuse, historyVars,
                   rebuilt>>

(* --------------------------- specifications --------------------------- *)

Next ==
    \/ Access
    \/ FsReaddir
    \/ GetMarkdownFiles
    \/ GetMarkdownFilesSub
    \/ GetMarkdownFilesFails
    \/ FsScanReadFile
    \/ ScanReadFile
    \/ FsScanStat
    \/ ScanStat
    \/ WriteFile
    \/ DeleteFile
    \/ OnAdd
    \/ OnChange
    \/ OnUnlink
    \/ FsHandlerReadFile
    \/ HandlerReadFile
    \/ FsHandlerStat
    \/ HandlerStat
    \/ CallToolRequest(SyncRequests)
    \/ SendReply

Spec == Init /\ [][Next]_vars

(* A corpus at rest: the state the startup scan leaves for some directory    *)
(* (files listed in some order, each with some content and modification     *)
(* time), the watcher subscribed and idle.  Tool calls of every shape are    *)
(* served against it.                                                        *)
InitQuery ==
    \E S \in SUBSET Paths :
      \E files \in Orders(S), raw \in [S -> Contents], mtime \in [S -> 0..MaxTime] :
        /\ disk = [p \in Paths |-> IF p \in S THEN File(raw[p], mtime[p]) ELSE << >>]
        /\ documents = [i \in 1..Len(files) |->
                           buildDocument(files[i], raw[files[i]], mtime[files[i]])]
        /\ fuse = rebuildSearchIndex(documents)
        /\ writes = 0
        /\ phase = "watching"
        /\ scanFiles = << >>
        /\ scanLoad = << >>
        /\ scanCall = NotPerformed
        /\ pending = << >>
        /\ inflight = EmptyBag
        /\ lastOp = Op("scan:stat", "", TRUE)
        /\ lastReq = << >>
        /\ reply = NoReply
        /\ lastEvent = [p \in Paths |-> "none"]
        /\ loadFailed = [p \in Paths |-> FALSE]
        /\ rebuilt = TRUE

NextQuery == CallToolRequest(Requests) \/ SendReply

SpecQuery == InitQuery /\ [][NextQuery]_vars

(* A larger corpus at rest, of up to four files, against which find_similar  *)
(* is called for every id and limit: three candidates are scored and sorted. *)
InitSimilar ==
    \E S \in SUBSET SimilarPaths :
      \E files \in Orders(S), raw \in [S -> Contents] :
        /\ disk = [p \in SimilarPaths |-> IF p \in S THEN File(raw[p], 0) ELSE << >>]
        /\ documents = [i \in 1..Len(files) |-> buildDocument(files[i], raw[files[i]], 0)]
        /\ fuse = rebuildSearchIndex(documents)
        /\ writes = 0
        /\ phase = "watching"
        /\ scanFiles = << >>
        /\ scanLoad = << >>
        /\ scanCall = NotPerformed
        /\ pending = << >>
        /\ inflight = EmptyBag
        /\ lastOp = Op("scan:stat", "", TRUE)
        /\ lastReq = << >>
        /\ reply = NoReply
        /\ lastEvent = [p \in Paths |-> "none"]
        /\ loadFailed = [p \in Paths |-> FALSE]
        /\ rebuilt = TRUE

SimilarRequests ==
    {Request("find_similar", Args(<< >>, l, <<relative(docsPath, p)>>, << >>, << >>, << >>)) :
        p \in SimilarPaths, l \in Limits}

NextSimilar == CallToolRequest(SimilarRequests) \/ SendReply

SpecSimilar == InitSimilar /\ [][NextSimilar]_vars

(* ------------------------------ claims -------------------------------- *)

idOf(p) == relative(docsPath, p)

\* Every event queued for p has been delivered and its handler has finished.
Settled(p) ==
    /\ phase = "watching"
    /\ ~InFlightFor(p)
    /\ \A i \in 1..Len(pending) : pending[i].path # p

IndexedIds == IF fuse = << >> THEN {} ELSE MapKeys(fuse[1].docs)

\* C1: last write wins by recency.  Once the handlers of all add/change events
\* of a path have finished (the last event was delivered after the last write,
\* so it observed the file as it is now, and no read failed), the Store record
\* of the path holds the content of that newest revision, whatever the order in
\* which the reads of the handlers completed.
C1_LastWriteWins ==
    \A p \in Paths :
        (/\ Settled(p)
         /\ lastEvent[p] \in {"add", "change"}
         /\ ~loadFailed[p]
         /\ Exists(p))
        => /\ MapHas(documents, idOf(p))
           /\ MapGet(documents, idOf(p))[1].content
                = markdownToPlainText(matter(disk[p][1].raw).content)

\* C2: Store/disk agreement.  In every quiescent state (every delivered event
\* has finished processing), for an id that has had an event and no failed
\* read since, the id is a key of the Store iff its last event was add/change
\* (the file existed), and is absent if its last event was unlink.
C2_StoreAgreesWithLastEvent ==
    Quiescent =>
        \A p \in Paths :
            (lastEvent[p] # "none" /\ ~loadFailed[p])
            => (MapHas(documents, idOf(p)) <=> lastEvent[p] \in {"add", "change"})

\* C3: a failed read in an add/change handler is treated as a removal.  Right
\* after a handler whose readFile or stat failed has finished, the id is
\* neither a key of the Store nor in the rebuilt index.
C3_FailedReadRemoves ==
    (lastOp.op \in {"handler:readFile", "handler:stat"} /\ ~lastOp.ok)
    => /\ ~MapHas(documents, idOf(lastOp.path))
       /\ idOf(lastOp.path) \notin IndexedIds

SomeEventHandled == \E p \in Paths : lastEvent[p] # "none"

\* C4: eventual index consistency.  After watcher events, once every handler
\* has finished, the index exists and holds exactly the Store's records, in
\* the Store's order: a rebuild followed the last mutation of the Store.
C4_IndexMatchesStoreWhenQuiescent ==
    (Quiescent /\ SomeEventHandled)
    => /\ fuse # << >>
       /\ fuse[1].docs = MapValues(documents)

\* A burst of add, change and unlink events has been processed to the end and
\* the Store is not empty.
C4_Witness ==
    /\ Quiescent
    /\ pending = << >>
    /\ writes = MaxWrites
    /\ \E p, q \in Paths : lastEvent[p] = "unlink" /\ lastEvent[q] \in {"add", "change"}
    /\ documents # << >>
    /\ fuse # << >>

IsCall(name) == lastReq # << >> /\ lastReq[1].name = name /\ lastReq[1].args # << >>

\* C5: search_documents answers "No documents loaded yet" exactly when no
\* rebuild has completed yet (during the scan, or after the scan failed),
\* without throwing and without changing the Store; once a rebuild has run it
\* never gives that answer again.
C5_NotReadyUntilFirstRebuild ==
    [][ (lastReq' # << >> /\ lastReq'[1].name = "search_documents"
            /\ lastReq'[1].args # << >>)
        => /\ (reply' = NotReadyReply) <=> ~rebuilt
           /\ reply'.kind # "error"
           /\ documents' = documents
           /\ rebuilt' = rebuilt ]_vars

\* search_documents is answered "not ready" in the middle of the startup scan,
\* with a record already in the Store.
C5_Witness ==
    /\ IsCall("search_documents")
    /\ reply = NotReadyReply
    /\ phase = "scan"
    /\ documents # << >>

\* C6: tool calls are read-only and the synchronizer is the only writer.  A
\* step that serves a tool call leaves the Store (keys, records, order) and the
\* index as they were, and every step that changes the Store is a step of
\* loadDocuments, of loadDocument or of the unlink handler.
C6_QueriesReadOnly ==
    [][ /\ lastReq' # << >> => (documents' = documents /\ fuse' = fuse)
        /\ documents' # documents
             => lastOp'.op \in {"getMarkdownFiles", "scan:stat", "handler:stat", "unlink"}
      ]_vars

\* A find_similar for a stored record is answered while a handler is suspended.
C6_Witness ==
    /\ IsCall("find_similar")
    /\ reply.kind = "json"
    /\ inflight # EmptyBag
    /\ Len(documents) >= 2

Min(a, b) == IF a < b THEN a ELSE b

TokenSet(doc) == {doc.tokens[i] : i \in 1..Len(doc.tokens)}

ItemIds(items) == {items[i].id : i \in 1..Len(items)}

\* The limits the tool's interface declares: none given (the default applies)
\* or an integer > 0.
AcceptedLimit(limit) == limit = << >> \/ limit[1] > 0

\* C7: find_similar for a stored target and an accepted limit (the default 3
\* when none is given) never lists the target and returns at most `limit`
\* entries, exactly min(limit, |Store| - 1).
C7_FindSimilarBounded ==
    (/\ IsCall("find_similar")
     /\ MapHas(documents, lastReq[1].args[1].id[1])
     /\ AcceptedLimit(lastReq[1].args[1].limit))
    => LET limit == IF lastReq[1].args[1].limit = << >> THEN 3
                    ELSE lastReq[1].args[1].limit[1]
       IN /\ reply.kind = "json"
          /\ lastReq[1].args[1].id[1] \notin ItemIds(reply.items)
          /\ Len(reply.items) <= limit
          /\ Len(reply.items) = Min(limit, Len(documents) - 1)

\* find_similar with limit 1 over three records has returned one of the two
\* candidates.
C7_Witness ==
    /\ IsCall("find_similar")
    /\ lastReq[1].args[1].limit = <<1>>
    /\ MapHas(documents, lastReq[1].args[1].id[1])
    /\ Len(documents) = 3
    /\ Len(reply.items) = 1

\* The score find_similar reports for items[k] is a number (not NaN), the
\* Jaccard index of the token sets of the target and of that record.
ScoreIsJaccard(target, items, k) ==
    LET b == MapGet(documents, items[k].id)[1]
        s == items[k].score
    IN /\ ~IsNaN(s)
       /\ s.num = Cardinality(TokenSet(target) \cap TokenSet(b))
       /\ s.den = Cardinality(TokenSet(target) \cup TokenSet(b))
       /\ 0 <= s.num /\ s.num <= s.den
       /\ (TokenSet(target) = {} \/ TokenSet(b) = {}) => s.num = 0

\* C8: calculateSimilarity is the Jaccard index of the token sets, a number in
\* [0, 1], and 0 as soon as one of the two token sets is empty, both included:
\* so is every score find_similar reports.
C8_JaccardZeroOnEmpty ==
    (IsCall("find_similar") /\ reply.kind = "json")
    => LET target == MapGet(documents, lastReq[1].args[1].id[1])[1]
       IN \A k \in 1..Len(reply.items) : ScoreIsJaccard(target, reply.items, k)

\* C8 without the case of two empty token sets.
C8_JaccardUnlessBothEmpty ==
    (IsCall("find_similar") /\ reply.kind = "json")
    => LET target == MapGet(documents, lastReq[1].args[1].id[1])[1]
       IN \A k \in 1..Len(reply.items) :
             (TokenSet(target) # {}
                \/ TokenSet(MapGet(documents, reply.items[k].id)[1]) # {})
             => ScoreIsJaccard(target, reply.items, k)

\* C9: similarity is reflexive and symmetric.  For stored records a, b the two
\* orders give the same result (the same fraction; for two empty token lists
\* the same 0/0), and a record with tokens scores den/den = 1 against itself,
\* whatever duplicates or order its token list has.
C9_ReflexiveSymmetric ==
    \A i, j \in 1..Len(documents) :
        LET a == documents[i]
            b == documents[j]
        IN /\ calculateSimilarity(a, b) = calculateSimilarity(b, a)
           /\ a.tokens # << >>
                => /\ calculateSimilarity(a, a).den > 0
                   /\ calculateSimilarity(a, a).num = calculateSimilarity(a, a).den

\* find_similar has scored a record whose token list repeats a token against
\* a record with other tokens and against one with none.
C9_Witness ==
    /\ IsCall("find_similar")
    /\ reply.kind = "json"
    /\ Len(reply.items) = 2
    /\ \E i, j, k \in 1..Len(documents) :
          /\ documents[i].id = lastReq[1].args[1].id[1]
          /\ Len(documents[i].tokens) > Cardinality(TokenSet(documents[i]))
          /\ TokenSet(documents[j]) \cap TokenSet(documents[i]) # {}
          /\ TokenSet(documents[j]) # TokenSet(documents[i])
          /\ documents[k].tokens = << >>

\* A date argument that is given and parses as a date.
GivenDate(d) == d # << >> /\ parseDate(d[1]) # << >>

\* C10: search_by_date, for bounds that are absent or valid dates, returns
\* exactly the records modified strictly after `after` and strictly before
\* `before`, each once, latest first; without bounds every record, and with
\* after = before none.
C10_SearchByDate ==
    (/\ IsCall("search_by_date")
     /\ lastReq[1].args[1].after = << >> \/ GivenDate(lastReq[1].args[1].after)
     /\ lastReq[1].args[1].before = << >> \/ GivenDate(lastReq[1].args[1].before))
    => LET after  == lastReq[1].args[1].after
           before == lastReq[1].args[1].before
           wanted == {i \in 1..Len(documents) :
                        /\ after # << >> => documents[i].lastModified > parseDate(after[1])[1]
                        /\ before # << >> => documents[i].lastModified < parseDate(before[1])[1]}
       IN /\ reply.kind = "json"
          /\ ItemIds(reply.items) = {documents[i].id : i \in wanted}
          /\ Len(reply.items) = Cardinality(wanted)
          /\ \A i, j \in 1..Len(reply.items) :
                i < j => reply.items[i].lastModified >= reply.items[j].lastModified
          /\ (after = << >> /\ before = << >>) => Len(reply.items) = Len(documents)
          /\ (after # << >> /\ before # << >> /\ parseDate(after[1]) = parseDate(before[1]))
                => reply.items = << >>

\* search_by_date with only `after` has left out a record modified exactly at
\* the bound and returned two later ones.
C10_Witness ==
    /\ IsCall("search_by_date")
    /\ lastReq[1].args[1].after = <<"2024-01-01">>
    /\ lastReq[1].args[1].before = << >>
    /\ \E i \in 1..Len(documents) : documents[i].lastModified = 1
    /\ Len(documents) = 3
    /\ Len(reply.items) = 2

\* A date argument that is given, is not the empty string, and is not a date.
MalformedDate(d) == d # << >> /\ d[1] # "" /\ parseDate(d[1]) = << >>

\* C11: search_by_date with an `after` or `before` string that does not parse
\* as a date is rejected with an error (an input-validation error with a
\* message), and does not answer with a result list, empty or not.
C11_MalformedDateRejected ==
    (/\ IsCall("search_by_date")
     /\ \/ MalformedDate(lastReq[1].args[1].after)
        \/ MalformedDate(lastReq[1].args[1].before))
    => /\ reply.kind = "error"
       /\ reply.message # << >>

\* A limit that is given and is 0 or negative.
RejectedLimit(limit) == limit # << >> /\ limit[1] <= 0

\* C12: search_documents and find_similar with limit = 0 or a negative limit
\* answer with an input-validation error: no default is substituted and no
\* result list is returned.
C12_NonPositiveLimitRejected ==
    (/\ IsCall("search_documents") \/ IsCall("find_similar")
     /\ RejectedLimit(lastReq[1].args[1].limit))
    => /\ reply.kind = "error"
       /\ reply.message # << >>

\* The tag a list_documents request carries: << >> when it carries no tag, or
\* no arguments object at all.
TagOf(req) == IF req.args = << >> THEN << >> ELSE req.args[1].tag

\* The Store records list_documents(tag) is to return, in the Store's order.
Tagged(docs, tag) ==
    IF tag = << >> THEN docs
    ELSE SelectSeq(docs, LAMBDA d : \E k \in 1..Len(tagsOrEmpty(d)) : tagsOrEmpty(d)[k] = tag[1])

\* The reply lists exactly the records of `wanted`, one entry each.
ListsExactly(r, wanted) ==
    /\ r.kind = "json"
    /\ Len(r.items) = Len(wanted)
    /\ \A i \in 1..Len(wanted) :
          /\ r.items[i].id = wanted[i].id
          /\ r.items[i].title = wanted[i].title
          /\ r.items[i].lastModified = wanted[i].lastModified

\* C13: list_documents with tag t returns exactly the Store records whose tag
\* collection has t as an element (records without tags are left out), and
\* list_documents without a tag returns one entry for every record, also when
\* the call carries no arguments object at all.
C13_ListDocuments ==
    (lastReq # << >> /\ lastReq[1].name = "list_documents")
    => ListsExactly(reply, Tagged(documents, TagOf(lastReq[1])))

\* C13 for the calls that carry an arguments object whose tag is absent or a
\* non-empty string.
C13_ListWithArguments ==
    (IsCall("list_documents") /\ lastReq[1].args[1].tag # <<"">>)
    => ListsExactly(reply, Tagged(documents, TagOf(lastReq[1])))

\* The request just served is get_document or find_similar, with an id in it.
IsLookup(req) ==
    /\ req # << >>
    /\ req[1].name \in {"get_document", "find_similar"}
    /\ req[1].args # << >>

\* C14: for an id that is not a key of the Store when the call is served,
\* get_document and find_similar answer with the text "Document not found",
\* do not throw, and leave the Store and the index as they were; for an id that
\* is a key, get_document returns that record's id, title, frontmatter, content
\* and lastModified.
C14_NotFoundIsAResult ==
    [][ IsLookup(lastReq')
        => LET id == lastReq'[1].args[1].id[1]
           IN /\ ~MapHas(documents, id)
                   => /\ reply' = NotFoundReply(id)
                      /\ reply'.kind # "error"
              /\ documents' = documents
              /\ fuse' = fuse
              /\ (MapHas(documents, id) /\ lastReq'[1].name = "get_document")
                   => LET doc == MapGet(documents, id)[1]
                      IN reply' = JsonReply(<< [id           |-> id,
                                                title        |-> doc.title,
                                                frontmatter  |-> doc.frontmatter,
                                                content      |-> doc.content,
                                                lastModified |-> doc.lastModified] >>)
      ]_vars

\* find_similar has been answered "not found" for a file whose 'add' handler is
\* still suspended, with another record in the Store.
C14_Witness ==
    /\ IsCall("find_similar")
    /\ reply = NotFoundReply("a.md")
    /\ ~MapHas(documents, "a.md")
    /\ InFlightFor("docs/a.md")
    /\ documents # << >>

\* The number of add/change handlers suspended in loadDocument for path p.
HandlersInFlight(p) ==
    LET hs == {h \in BagToSet(inflight) : h.path = p}
        RECURSIVE Sum(_)
        Sum(S) == IF S = {} THEN 0
                  ELSE LET h == CHOOSE x \in S : TRUE
                       IN CopiesIn(h, inflight) + Sum(S \ {h})
    IN Sum(hs)

\* C15: per-id serialization.  At no point are two watcher handlers of one
\* path in flight together: while one is suspended in loadDocument (at
\* readFile or at stat), no other handler of that path, unlink included, starts
\* or completes.
C15_OneHandlerPerPath ==
    /\ \A p \in Paths : HandlersInFlight(p) <= 1
    /\ lastOp.op \in {"add", "change"} => HandlersInFlight(lastOp.path) = 1
    /\ lastOp.op = "unlink" => HandlersInFlight(lastOp.path) = 0

\* The record is what loadDocument derives from the one readFile result `raw`
\* of the file at `p`: content, tokens, title and frontmatter.
DerivedFrom(doc, p, raw) ==
    /\ doc.content = markdownToPlainText(raw.markdown)
    /\ doc.tokens = tokenize(toLowerCase(markdownToPlainText(raw.markdown)))
    /\ doc.frontmatter = raw.frontmatter
    /\ doc.title = (IF raw.frontmatter.title # << >>
                    THEN raw.frontmatter.title[1] ELSE basenameTitle(p))

\* C16: every record of the Store has its content, tokens, title and
\* frontmatter derived from one single readFile result, and its tokens are the
\* tokenization of its own content, lower-cased, under every interleaving of
\* handlers and file modifications.
C16_RecordFromOneRead ==
    \A i \in 1..Len(documents) :
        /\ documents[i].tokens = tokenize(toLowerCase(documents[i].content))
        /\ \E raw \in Contents : DerivedFrom(documents[i], documents[i].path, raw)

\* A handler has stored the text it read before the file was rewritten with
\* another text: the record and the file on disk differ.
C16_Witness ==
    /\ lastOp = Op("handler:stat", "docs/a.md", TRUE)
    /\ MapHas(documents, "a.md")
    /\ Exists("docs/a.md")
    /\ MapGet(documents, "a.md")[1].content
         # markdownToPlainText(disk["docs/a.md"][1].raw.markdown)
    /\ MapGet(documents, "a.md")[1].tokens # MapGet(documents, "a.md")[1].content

\* C17: a record carries the lastModified of the file revision whose content it
\* holds.  Every write gives the file a modification time of its own, so a
\* record whose lastModified is the modification time of the file as it is on
\* disk holds the content of the file as it is on disk, also when the file was
\* rewritten between loadDocument's readFile and its stat.
C17_MtimeOfSameRevision ==
    \A p \in Paths :
        (/\ Exists(p)
         /\ MapHas(documents, idOf(p))
         /\ MapGet(documents, idOf(p))[1].lastModified = disk[p][1].mtime)
        => MapGet(documents, idOf(p))[1].content
             = markdownToPlainText(matter(disk[p][1].raw).content)

\* The search result `item` is the projection of the record d, a match of
\* `query`, with the score of that match.
ItemOf(item, d, query) ==
    /\ item.id = d.id
    /\ item.title = d.title
    /\ fuseMatches(d, query)
    /\ item.score = [negLog |-> fuseNegLog(d, query)]
    /\ item.excerpt = excerpt(d.content, 200)
    /\ item.tags = tagsOrEmpty(d)

\* C18: the index rebuild is an atomic swap.  A step that changes this.fuse
\* replaces it by a complete index over the values the Store has at that step
\* (never a part of them, never the old index with records added or removed),
\* and a search_documents call leaves the index alone and answers from that
\* one snapshot: every result is a record of it.
C18_AtomicIndexSwap ==
    [][ /\ fuse' # fuse => fuse' = << [docs |-> MapValues(documents')] >>
        /\ (/\ lastReq' # << >>
            /\ lastReq'[1].name = "search_documents"
            /\ lastReq'[1].args # << >>
            /\ fuse # << >>)
           => /\ fuse' = fuse
              /\ reply'.kind = "json"
              /\ \A k \in 1..Len(reply'.items) :
                    \E i \in 1..Len(fuse[1].docs) :
                        ItemOf(reply'.items[k], fuse[1].docs[i], lastReq'[1].args[1].query[1])
      ]_vars

\* search_documents has found two records in an index that was rebuilt by the
\* watcher's handlers, one of which is suspended again.
C18_Witness ==
    /\ IsCall("search_documents")
    /\ Len(reply.items) = 2
    /\ inflight # EmptyBag
    /\ \E p \in Paths : lastEvent[p] = "add"
    /\ fuse # << >>
    /\ Len(fuse[1].docs) = 2

\* Score a is a number strictly greater than the number b (false when either
\* is NaN).
Greater(a, b) == ~IsNaN(a) /\ ~IsNaN(b) /\ a.num * b.den > b.num * a.den

\* The position of the record `id` in the Store's iteration order.
PositionOf(id) == CHOOSE k \in 1..Len(documents) : documents[k].id = id

\* C19: find_similar lists its candidates by score, highest first: no entry
\* has a greater score than an entry before it, and two entries of which the
\* first does not have the greater score (equal scores; also a score that is
\* not a number, from two empty token lists) are in the Store's insertion
\* order.  This holds for every Store, records with empty token lists included.
C19_FindSimilarOrder ==
    (IsCall("find_similar") /\ reply.kind = "json")
    => \A i, j \in 1..Len(reply.items) :
          i < j => /\ ~Greater(reply.items[j].score, reply.items[i].score)
                   /\ ~Greater(reply.items[i].score, reply.items[j].score)
                        => PositionOf(reply.items[i].id) < PositionOf(reply.items[j].id)

\* find_similar has scored three candidates and moved the one that shares a
\* token with the target to the front, from between two candidates with empty
\* token lists, which tie and keep their Store order.
C19_Witness ==
    /\ IsCall("find_similar")
    /\ reply.kind = "json"
    /\ Len(reply.items) = 3
    /\ Greater(reply.items[1].score, reply.items[2].score)
    /\ reply.items[2].score = reply.items[3].score
    /\ PositionOf(reply.items[2].id) < PositionOf(reply.items[1].id)
    /\ PositionOf(reply.items[1].id) < PositionOf(reply.items[3].id)
    /\ MapGet(documents, reply.items[2].id)[1].tokens = << >>

\* The ids of the .md files that are on disk.
IdsOnDisk == {idOf(p) : p \in {q \in Paths : Exists(q)}}

\* The step completes loadDocuments after a successful enumeration: the watcher
\* is subscribed in the state it leads to.
ScanCompletes ==
    /\ phase # "watching"
    /\ phase' = "watching"
    /\ lastOp' # Op("getMarkdownFiles", "", FALSE)

\* C20: the startup protocol.  The scan enumerates every .md file, each once
\* (the files of each directory as it is when its readdir is performed), and
\* clears the Store; it loads the files one after the other; no rebuild
\* happens while it runs (the index stays null); the step that ends it, after
\* the last file, is the one rebuild, made before the watcher is subscribed and
\* before any event is handled, and leaves an index that holds exactly the
\* Store's records; with no file touched meanwhile the Store then has a record
\* for every file on disk.
C20_StartupProtocol ==
    /\ [](phase \in {"init", "readdir", "readdirSub", "scan"} => fuse = << >> /\ ~rebuilt)
    /\ []((phase = "watching" /\ writes = 0 /\ rebuilt)
            => /\ MapKeys(documents) = IdsOnDisk
               /\ fuse = << [docs |-> MapValues(documents)] >>)
    /\ [][ /\ lastOp' = Op("fs:readdir", docsPath, TRUE)
                => /\ SeqToSet(ValueOf(scanCall'))
                        = {p \in RootPaths : Exists(p)} \cup {subDir}
                   /\ Len(ValueOf(scanCall')) = Cardinality(SeqToSet(ValueOf(scanCall')))
           /\ lastOp' = Op("fs:readdir", subDir, TRUE)
                => /\ SeqToSet(ValueOf(scanCall')) = {p \in SubPaths : Exists(p)}
                   /\ Len(ValueOf(scanCall')) = Cardinality(SeqToSet(ValueOf(scanCall')))
           /\ lastOp' = Op("readdir", docsPath, TRUE)
                => scanFiles' = ValueOf(scanCall)
           /\ lastOp' = Op("getMarkdownFiles", "", TRUE)
                => /\ documents' = << >>
                   /\ SeqToSet(scanFiles')
                        = (SeqToSet(scanFiles) \ {subDir}) \cup SeqToSet(ValueOf(scanCall))
                   /\ Len(scanFiles') = Cardinality(SeqToSet(scanFiles'))
           /\ lastOp'.op \in {"scan:readFile", "scan:stat"}
                => /\ phase = "scan"
                   /\ lastOp'.path = Head(scanFiles)
                   /\ scanFiles' = (IF scanLoad' = << >> THEN Tail(scanFiles) ELSE scanFiles)
                   /\ (lastOp'.op = "scan:stat" /\ lastOp'.ok)
                        => MapHas(documents', idOf(Head(scanFiles)))
           /\ (phase = "scan" /\ phase' = "scan")
                => fuse' = << >> /\ ~rebuilt'
           /\ ScanCompletes
                => /\ ~rebuilt /\ rebuilt'
                   /\ scanFiles' = << >>
                   /\ fuse' = << [docs |-> MapValues(documents')] >>
                   /\ pending' = << >> /\ inflight' = EmptyBag
                   /\ \A p \in Paths : lastEvent'[p] = "none"
         ]_vars

\* The scan has just ended with both files loaded; one of them was rewritten
\* while the scan ran, which the watcher, not yet subscribed, did not see.
C20_Witness ==
    /\ phase = "watching"
    /\ lastOp = Op("scan:stat", lastOp.path, TRUE)
    /\ Len(documents) = 2
    /\ fuse = << [docs |-> MapValues(documents)] >>
    /\ writes = 1
    /\ pending = << >>

\* C21: index/Store coherence at query time.  Once the first rebuild has run,
\* in every state (a query can be served in any of them) the index exists and
\* holds exactly the records of the Store: no state lies between a handler's
\* documents.set and its rebuild, and a search_documents reply lists only
\* records that are in the Store as it is when the call is served.
C21_IndexIsStoreAtQueryTime ==
    rebuilt
    => /\ fuse # << >>
       /\ fuse[1].docs = MapValues(documents)
       /\ IsCall("search_documents")
            => \A k \in 1..Len(reply.items) :
                  /\ MapHas(documents, reply.items[k].id)
                  /\ ItemOf(reply.items[k], MapGet(documents, reply.items[k].id)[1],
                            lastReq[1].args[1].query[1])

\* search_documents is served after a handler has stored a file written while
\* the watcher runs, with another handler suspended between its readFile and
\* its stat, and finds records.
C21_Witness ==
    /\ IsCall("search_documents")
    /\ reply.items # << >>
    /\ \E h \in BagToSet(inflight) : h.raw # << >>
    /\ \E p \in Paths : lastEvent[p] = "change"
    /\ \E i \in 1..Len(documents) : documents[i].lastModified > 0
    /\ fuse # << >>

\* The Store holds for path p what is on disk: a record with the file's text
\* if the file exists, no record if it does not.
ReflectsDisk(p) ==
    IF Exists(p)
    THEN /\ MapHas(documents, idOf(p))
         /\ MapGet(documents, idOf(p))[1].content
              = markdownToPlainText(matter(disk[p][1].raw).content)
    ELSE ~MapHas(documents, idOf(p))

\* C22: no lost update across the handoff from the scan to the watcher.  When
\* the scan has completed with its rebuild, the watcher is subscribed, and the
\* system is quiescent without any event having been queued or delivered, the
\* Store reflects every file as it is on disk, also a file created, rewritten
\* or deleted while the scan ran.
C22_NoLostUpdateAtHandoff ==
    (/\ Quiescent
     /\ rebuilt
     /\ pending = << >>
     /\ \A p \in Paths : lastEvent[p] = "none")
    => \A p \in Paths : ReflectsDisk(p)

\* The steps of the watcher's handlers: the start of an add/change handler,
\* the settling of its readFile and of its stat, and the unlink handler.
HandlerOps == {"add", "change", "unlink", "handler:readFile", "handler:stat"}

\* The records of the ids other than `id`, in the Store's order.
OtherRecords(docs, id) == SelectSeq(docs, LAMBDA d : d.id # id)

\* C23: per-id isolation.  A step of a handler for path p changes at most the
\* Store entry keyed by the root-relative path of p: the records of all other
\* ids, and their order, stay as they were, whatever handlers of other paths
\* are in flight.  Every record is stored under the key that is its id field,
\* the root-relative path of the file it was read from, and no id is stored
\* twice.
C23_PerIdIsolation ==
    /\ [](\A i, j \in 1..Len(documents) :
            /\ documents[i].id = relative(docsPath, documents[i].path)
            /\ documents[i].id = documents[j].id => i = j)
    /\ [][ lastOp'.op \in HandlerOps
           => /\ OtherRecords(documents', idOf(lastOp'.path))
                   = OtherRecords(documents, idOf(lastOp'.path))
              /\ lastOp'.op \in {"add", "change", "handler:readFile"}
                   => documents' = documents
         ]_vars

\* The 'unlink' of one file has been handled with the record of the other
\* file in the Store and a handler of that other file suspended.
C23_Witness ==
    /\ lastOp = Op("unlink", "docs/a.md", TRUE)
    /\ ~MapHas(documents, "a.md")
    /\ MapHas(documents, "b-c.md")
    /\ InFlightFor("docs/b-c.md")

====
